---- MODULE Spec2Model ----
(***************************************************************************)
(* fetch_biosample_metadata.py: the batch driver (main), the two resolvers *)
(* with their retry loop (fetch_biosample_from_assembly / _from_nucleotide),*)
(* the record fetcher (fetch_biosample_record) and the table writer        *)
(* (write_tsv), as one sequential state machine.  The remote service       *)
(* (Entrez.esearch / elink / efetch / read) is the environment: each call  *)
(* nondeterministically raises, or returns one of the response shapes.     *)
(***************************************************************************)
EXTENDS Integers, Sequences, FiniteSets, TLC

(* ---------------------------------------------------------------------- *)
(* Bounds of the model                                                     *)
(* ---------------------------------------------------------------------- *)
\* longest input file, in lines
MaxLines == 2
\* longest attribute list of a fetched BioSample record
MaxAttrs == 2

(* ---------------------------------------------------------------------- *)
(* Program constants                                                       *)
(* ---------------------------------------------------------------------- *)
\* max_retries=3, the default of both resolvers; main never overrides it
MaxRetries == 3
\* time.sleep(2) in the except branch
BackoffSeconds == 2

KNOWN_ATTRIBUTES ==
  { "strain", "collection_date", "depth", "env_broad_scale",
    "env_local_scale", "env_medium", "geo_loc_name", "isol_growth_condt",
    "lat_lon", "num_replicons", "ref_biomaterial", "type-material",
    "isolation_source", "collected_by", "host", "tissue", "age",
    "sex", "dev_stage", "biomaterial_provider", "culture_collection",
    "specimen_voucher", "cultivar", "ecotype", "isolate", "sub_strain",
    "cell_line", "cell_type", "serovar", "serotype", "pathovar",
    "genotype", "phenotype", "note", "temp", "altitude", "sample_type",
    "BioSampleModel", "organism" }

(* ---------------------------------------------------------------------- *)
(* Python values                                                           *)
(* ---------------------------------------------------------------------- *)
\* a dict is a function whose DOMAIN is its key set; {} is the empty one
EmptyDict == [k \in {} |-> ""]

DictSet(d, key, value) ==
  [k \in (DOMAIN d) \cup {key} |-> IF k = key THEN value ELSE d[k]]

\* d.get(key, default)
DictGet(d, key, default) == IF key \in DOMAIN d THEN d[key] ELSE default

\* an optional value: None is <<>>, a value v is <<v>>
None == <<>>
Some(v) == <<v>>

\* a variant of Truthy that takes the empty mapping for a result
Truthy_NotNone(m) == m # None

\* a variant of Truthy that wants the accession key

Truthy_NeedsAccession(m) ==
  m # <<>> /\ "biosample_accession" \in DOMAIN m[1]

\* Python truthiness of a resolver's return value: None and {} are falsy
Truthy(m) == m # None /\ DOMAIN m[1] # {}

SeqsUpTo(S, n) == UNION {[1..m -> S] : m \in 0..n}

(* ---------------------------------------------------------------------- *)
(* The environment: command line, input file, remote responses             *)
(* ---------------------------------------------------------------------- *)
\* --db choices
Databases == {"assembly", "nucleotide"}

\* --delay is parsed with type=float: any float is accepted, negative ones
\* included; time.sleep treats all non-negative values alike, so one
\* negative and one non-negative value (in seconds) separate the cases
Delays == {-1, 1}

\* lines of the input file after line.strip(); "" is a blank line
Lines == {"", "GCA_000000000.1", "FJ457244.1"}

\* the input file: missing (FileNotFoundError), unreadable (another OSError
\* from open), or its lines
InputFiles ==
  { [kind |-> "missing",    lines |-> <<>>],
    [kind |-> "unreadable", lines |-> <<>>] }
  \cup { [kind |-> "lines", lines |-> ls] : ls \in SeqsUpTo(Lines, MaxLines) }

\* Entrez.read of an esearch response: record['IdList']
SearchRecords == { [IdList |-> <<>>], [IdList |-> <<"12345">>] }

\* Entrez.read of an elink response: a list of link sets
NoLinkSet     == <<>>
NoLinkSetDb   == << [LinkSetDb |-> <<>>] >>
NoLinks       == << [LinkSetDb |-> << [Link |-> <<>>] >>] >>
OneLink       == << [LinkSetDb |-> << [Link |-> << [Id |-> "67890"] >>] >>] >>
LinkRecords   == { NoLinkSet, NoLinkSetDb, NoLinks, OneLink }

\* one entry of biosample_record['Attributes']; attribute_name or content
\* may be missing
AttributeEntries ==
  { [attribute_name |-> "strain", content |-> "K12"],
    [attribute_name |-> "strain"],
    [attribute_name |-> "biosample_accession", content |-> "SAMN_ATTR"],
    [attribute_name |-> "submitter_id", content |-> "K12"],
    [content |-> "K12"] }

AttributeLists == SeqsUpTo(AttributeEntries, MaxAttrs)

\* one parsed BioSample record: 'Accession' and 'Attributes' may be absent
BiosampleRecord ==
  { EmptyDict }
  \cup { [Accession |-> "SAMN00000001"] }
  \cup { [Attributes |-> al] : al \in AttributeLists }
  \cup { [Accession |-> "SAMN00000001", Attributes |-> al] : al \in AttributeLists }

\* Entrez.read of an efetch response: empty, or one record
BiosampleRecords == { <<>> } \cup { <<r>> : r \in BiosampleRecord }

(* ---------------------------------------------------------------------- *)
(* fetch_biosample_record, lines 58-71: the parse of one record            *)
(* ---------------------------------------------------------------------- *)
\* a variant of Keep that drops only the nameless attributes
Keep_NotUnknown(attr_name) == attr_name # "unknown"

Keep(attr_name) ==
  attr_name \in KNOWN_ATTRIBUTES \/ attr_name = "biosample_accession"

\* a variant of CopyAttribute that keeps the value a name already has
CopyAttribute_FirstWins(attributes, attr) ==
  LET attr_name  == DictGet(attr, "attribute_name", "unknown")
      attr_value == DictGet(attr, "content", "")
  IN  IF Keep(attr_name) /\ attr_name \notin DOMAIN attributes
      THEN DictSet(attributes, attr_name, attr_value)
      ELSE attributes

\* one iteration of the for loop over biosample_record['Attributes']
CopyAttribute(attributes, attr) ==
  LET attr_name  == DictGet(attr, "attribute_name", "unknown")
      attr_value == DictGet(attr, "content", "")
  IN  IF Keep(attr_name) THEN DictSet(attributes, attr_name, attr_value)
                         ELSE attributes

RECURSIVE CopyAttributes(_, _)
CopyAttributes(attributes, attrs) ==
  IF attrs = <<>> THEN attributes
  ELSE CopyAttributes(CopyAttribute(attributes, Head(attrs)), Tail(attrs))

\* a variant of ExtractAccession that never stores the accession
ExtractAccession_Dropped(biosample_record) == [k \in {} |-> ""]

ExtractAccession(biosample_record) ==
  IF "Accession" \in DOMAIN biosample_record
  THEN DictSet(EmptyDict, "biosample_accession", biosample_record.Accession)
  ELSE EmptyDict

ParseRecord(biosample_record) ==
  IF "Attributes" \in DOMAIN biosample_record
  THEN CopyAttributes(ExtractAccession(biosample_record),
                      biosample_record.Attributes)
  ELSE ExtractAccession(biosample_record)

\* what the response of efetch carried, kept until main has recorded the
\* result: whether 'Accession' was present, and the attribute names listed
NoName == "(no attribute_name)"

AttrNames(biosample_record) ==
  IF "Attributes" \in DOMAIN biosample_record
  THEN { DictGet(biosample_record.Attributes[n], "attribute_name", NoName) :
           n \in 1..Len(biosample_record.Attributes) }
  ELSE {}

Carried(biosample_record) ==
  [accession |-> "Accession" \in DOMAIN biosample_record,
   names     |-> AttrNames(biosample_record)]

NothingFetched == [accession |-> FALSE, names |-> {}]

(* ---------------------------------------------------------------------- *)
(* write_tsv                                                               *)
(* ---------------------------------------------------------------------- *)
\* sorted() orders strings by code point; this is that order on every key
\* the model can produce
KeyOrder ==
  << "BioSampleModel", "age", "altitude", "assembly_accession",
     "biomaterial_provider", "biosample_accession", "cell_line", "cell_type",
     "collected_by", "collection_date", "cultivar", "culture_collection",
     "depth", "dev_stage", "ecotype", "env_broad_scale", "env_local_scale",
     "env_medium", "genotype", "geo_loc_name", "host", "isol_growth_condt",
     "isolate", "isolation_source", "lat_lon", "note", "nucleotide_accession",
     "num_replicons", "organism", "pathovar", "phenotype", "ref_biomaterial",
     "sample_type", "serotype", "serovar", "sex", "specimen_voucher",
     "strain", "sub_strain", "submitter_id", "temp", "tissue",
     "type-material", "unknown" >>

\* a variant of Sorted that orders the keys from last to first
Sorted_Descending(keys) ==
  LET up == SelectSeq(KeyOrder, LAMBDA k : k \in keys)
  IN  [c \in 1..Len(up) |-> up[Len(up) + 1 - c]]

\* sorted(all_keys), line 222
Sorted(keys) == SelectSeq(KeyOrder, LAMBDA k : k \in keys)

AllKeys(data) == UNION {DOMAIN data[n] : n \in 1..Len(data)}

\* csv.DictWriter with restval='': one field per column, '' where absent
Row(row, sorted_keys) ==
  [c \in 1..Len(sorted_keys) |-> DictGet(row, sorted_keys[c], "")]

\* the file write_tsv leaves behind: None when it returns early
WriteTsv(data) ==
  IF data = <<>> THEN None
  ELSE LET sorted_keys == Sorted(AllKeys(data))
       IN  Some([header |-> sorted_keys,
                 rows   |-> [n \in 1..Len(data) |-> Row(data[n], sorted_keys)]])

(* ---------------------------------------------------------------------- *)
(* State                                                                   *)
(* ---------------------------------------------------------------------- *)
VARIABLES
  pc,            \* position of the single thread of control
  db,            \* args.db
  delay,         \* args.delay
  input_file,    \* the file named by args.input_file
  accessions,    \* main: accessions
  i,             \* main: loop index of the accession being processed
  all_data,      \* main: the Result Set
  successful,    \* main: successful
  failed,        \* main: failed
  metadata,      \* main: metadata, the resolver's return value
  attempt,       \* resolver: attempt
  handle,        \* resolver: the handle bound to `handle`: unbound/open/closed
  fetch_handle,  \* fetch_biosample_record: the handle bound to its `handle`
  record,        \* resolver: record (None while unbound)
  link_record,   \* resolver: link_record (None while unbound)
  outcome,       \* what the latest remote call of this attempt did
  fetched,       \* what the BioSample record fetched in this attempt carried
  sleeps,        \* durations of the backoff sleeps made for this accession
  history,       \* how the lookups of the accessions recorded so far went
  waits,         \* inter-accession sleeps completed
  output,        \* the output file: None until written
  attempt_calls, \* the remote operations requested so far in this attempt
  asm,           \* fetch_biosample_from_assembly run on its own
  nuc,           \* fetch_biosample_from_nucleotide run on its own
  fetcher        \* fetch_biosample_record run on its own

vars == << pc, db, delay, input_file, accessions, i, all_data, successful,
           failed, metadata, attempt, handle, fetch_handle, record,
           link_record, outcome, fetched, sleeps, history, waits, output,
           attempt_calls, asm, nuc, fetcher >>

cli   == << db, delay, input_file >>
apart == << asm, nuc, fetcher >>
tally == << all_data, successful, failed >>
frame == << attempt, handle, fetch_handle, record, link_record, outcome,
           fetched, sleeps, attempt_calls >>

\* accession_col, lines 274-279
AccessionCol(database) ==
  IF database = "nucleotide" THEN "nucleotide_accession"
                             ELSE "assembly_accession"

\* a function that main has not called has no frame
NotCalled == [pc |-> "idle"]

Init ==
  /\ pc = "start"
  /\ db \in Databases
  /\ delay \in Delays
  /\ input_file \in InputFiles
  /\ accessions = <<>>
  /\ i = 0
  /\ all_data = <<>>
  /\ successful = 0
  /\ failed = 0
  /\ metadata = None
  /\ attempt = 0
  /\ handle = "unbound"
  /\ fetch_handle = "unbound"
  /\ record = None
  /\ link_record = None
  /\ outcome = "none"
  /\ fetched = NothingFetched
  /\ sleeps = <<>>
  /\ history = "valid"
  /\ waits = 0
  /\ output = None
  /\ attempt_calls = <<>>
  /\ asm = NotCalled
  /\ nuc = NotCalled
  /\ fetcher = NotCalled

(* ---------------------------------------------------------------------- *)
(* main, lines 263-271: read the accessions                                *)
(* ---------------------------------------------------------------------- *)
\* [line.strip() for line in f if line.strip()]
NonBlank(lines) == SelectSeq(lines, LAMBDA l : l # "")

\* a variant of ReadInput that takes a missing file for an empty one
ReadInput_MissingIsEmpty ==
  /\ pc = "start"
  /\ CASE input_file.kind = "missing" ->
            /\ pc' = "summary"
            /\ UNCHANGED << accessions, i >>
       [] input_file.kind = "unreadable" ->
            /\ pc' = "crashed"
            /\ UNCHANGED << accessions, i >>
       [] input_file.kind = "lines" ->
            /\ accessions' = NonBlank(input_file.lines)
            /\ i' = IF accessions' = <<>> THEN 0 ELSE 1
            /\ pc' = IF accessions' = <<>> THEN "summary" ELSE "loop"
  /\ UNCHANGED << cli, apart, tally, metadata, frame, history, waits, output >>

\* lines 263-269: a missing file is caught and ends in sys.exit(1); any
\* other failure to open or read the file is not caught
ReadInput ==
  /\ pc = "start"
  /\ CASE input_file.kind = "missing" ->
            /\ pc' = "exit1"
            /\ UNCHANGED << accessions, i >>
       [] input_file.kind = "unreadable" ->
            /\ pc' = "crashed"
            /\ UNCHANGED << accessions, i >>
       [] input_file.kind = "lines" ->
            /\ accessions' = NonBlank(input_file.lines)
            /\ i' = IF accessions' = <<>> THEN 0 ELSE 1
            /\ pc' = IF accessions' = <<>> THEN "summary" ELSE "loop"
  /\ UNCHANGED << cli, apart, tally, metadata, frame, history, waits, output >>

(* ---------------------------------------------------------------------- *)
(* The resolvers, lines 85-119 and 133-166                                 *)
(* ---------------------------------------------------------------------- *)
\* a variant of CallFetchFn whose attempts are a budget that the earlier
\* failures have used up in part
CallFetchFn_SharedBudget ==
  /\ pc = "loop"
  /\ pc' = "search"
  /\ attempt' = 1 + failed
  /\ UNCHANGED << cli, apart, accessions, i, tally, metadata, handle,
                  fetch_handle, record, link_record, outcome, fetched, sleeps,
                  history, waits, output, attempt_calls >>

\* main line 289 calls fetch_fn(accession): a new frame, attempt = 1
CallFetchFn ==
  /\ pc = "loop"
  /\ pc' = "search"
  /\ attempt' = 1
  /\ UNCHANGED << cli, apart, accessions, i, tally, metadata, handle, fetch_handle,
                  record, link_record, outcome, fetched, sleeps, history,
                  waits, output, attempt_calls >>

\* variants of RetriesLeft: one sleep too many, one attempt too few
RetriesLeft_Inclusive(n) == n <= MaxRetries
RetriesLeft_GivesUpEarly(n) == n < MaxRetries - 1

\* the test of the except branch, lines 112 and 159
RetriesLeft(n) == n < MaxRetries

\* for attempt in range(1, max_retries + 1)
InRange(n) == n <= MaxRetries

\* except Exception: sleep and go round the loop again, or give up
Raise ==
  /\ pc' = IF RetriesLeft(attempt) THEN "backoff" ELSE "returned"
  /\ metadata' = None

\* return value: back in main with metadata bound
Return(value) ==
  /\ pc' = "returned"
  /\ metadata' = value

\* lines 88-96 / 136-144
Esearch ==
  /\ pc = "search"
  /\ attempt_calls' = Append(attempt_calls, "search")
  /\ \/ /\ outcome' = "search_request_error"
        /\ Raise
        /\ UNCHANGED << handle, record >>
     \/ /\ outcome' = "search_read_error"
        /\ handle' = "open"
        /\ Raise
        /\ UNCHANGED record
     \/ \E r \in SearchRecords :
          /\ handle' = "closed"
          /\ record' = Some(r)
          /\ IF r.IdList = <<>>
             THEN outcome' = "search_empty" /\ Return(None)
             ELSE outcome' = "search_found" /\ pc' = "link" /\ metadata' = None
  /\ UNCHANGED << cli, apart, accessions, i, tally, attempt, fetch_handle,
                  link_record, fetched, sleeps, history, waits, output >>

\* lines 99-108 / 147-155
Elink ==
  /\ pc = "link"
  /\ attempt_calls' = Append(attempt_calls, "link")
  /\ \/ /\ outcome' = "link_request_error"
        /\ Raise
        /\ UNCHANGED << handle, link_record >>
     \/ /\ outcome' = "link_read_error"
        /\ handle' = "open"
        /\ Raise
        /\ UNCHANGED link_record
     \/ \E lr \in LinkRecords :
          /\ handle' = "closed"
          /\ link_record' = Some(lr)
          /\ IF Len(lr) = 0
             THEN outcome' = "link_no_linkset" /\ Raise         \* IndexError
             ELSE IF lr[1].LinkSetDb = <<>>
             THEN outcome' = "link_no_linksetdb" /\ Return(None)
             ELSE IF lr[1].LinkSetDb[1].Link = <<>>
             THEN outcome' = "link_no_links" /\ Raise           \* IndexError
             ELSE outcome' = "link_found" /\ pc' = "fetch" /\ metadata' = None
  /\ UNCHANGED << cli, apart, accessions, i, tally, attempt, fetch_handle,
                  record, fetched, sleeps, history, waits, output >>

\* fetch_biosample_record, lines 50-71, called at lines 109 / 156
Efetch ==
  /\ pc = "fetch"
  /\ attempt_calls' = Append(attempt_calls, "fetch")
  /\ \/ /\ outcome' = "fetch_request_error"
        /\ Raise
        /\ UNCHANGED << fetch_handle, fetched >>
     \/ /\ outcome' = "fetch_read_error"
        /\ fetch_handle' = "open"
        /\ Raise
        /\ UNCHANGED fetched
     \/ \E rs \in BiosampleRecords :
          /\ fetch_handle' = "closed"
          /\ IF rs = <<>>
             THEN /\ outcome' = "fetch_empty"
                  /\ Return(None)
                  /\ UNCHANGED fetched
             ELSE /\ outcome' = "fetch_record"
                  /\ Return(Some(ParseRecord(rs[1])))
                  /\ fetched' = Carried(rs[1])
  /\ UNCHANGED << cli, apart, accessions, i, tally, attempt, handle, record,
                  link_record, sleeps, history, waits, output >>

\* lines 113-114 / 160-161: time.sleep(2), then the next attempt of the for
\* loop; a loop that runs out falls through to the final return None.
\* Leaving the except block drops the exception and with it the frame of
\* fetch_biosample_record, whose locals are unbound again; the resolver's
\* own locals stay bound to what the failed attempt left in them.
\* a variant of Backoff that resumes at the cross-reference when the failed
\* attempt had found an id
Backoff_ResumesAtLink ==
  /\ pc = "backoff"
  /\ sleeps' = Append(sleeps, BackoffSeconds)
  /\ outcome' = "none"
  /\ fetch_handle' = "unbound"
  /\ attempt_calls' = <<>>
  /\ IF InRange(attempt + 1)
     THEN /\ attempt' = attempt + 1
          /\ pc' = IF record # None /\ record[1].IdList # <<>>
                   THEN "link" ELSE "search"
          /\ UNCHANGED metadata
     ELSE Return(None) /\ UNCHANGED attempt
  /\ UNCHANGED << cli, apart, accessions, i, tally, handle, record, link_record,
                  fetched, history, waits, output >>

Backoff ==
  /\ pc = "backoff"
  /\ sleeps' = Append(sleeps, BackoffSeconds)
  /\ outcome' = "none"
  /\ fetch_handle' = "unbound"
  /\ attempt_calls' = <<>>
  /\ IF InRange(attempt + 1)
     THEN attempt' = attempt + 1 /\ pc' = "search" /\ UNCHANGED metadata
     ELSE Return(None) /\ UNCHANGED attempt
  /\ UNCHANGED << cli, apart, accessions, i, tally, handle, record, link_record,
                  fetched, history, waits, output >>

(* ---------------------------------------------------------------------- *)
(* main, lines 291-300: record the result, then the rate limit             *)
(* ---------------------------------------------------------------------- *)
\* the resolver's frame is gone once it has returned: its locals are unbound
FrameGone ==
  /\ attempt' = 0
  /\ handle' = "unbound"
  /\ fetch_handle' = "unbound"
  /\ record' = None
  /\ link_record' = None
  /\ outcome' = "none"
  /\ fetched' = NothingFetched
  /\ sleeps' = <<>>
  /\ attempt_calls' = <<>>

\* a fetched record carries data when it has a canonical accession or lists
\* an attribute that the allow-list lets through
CarriesData(f) ==
  f.accession
  \/ f.names \cap (KNOWN_ATTRIBUTES \cup {"biosample_accession"}) # {}

\* the lookups of the accession just resolved: "valid" when search,
\* cross-reference and fetch all answered at the first attempt and the
\* record carried data, "found" when they all answered, "failed" otherwise
Lookups ==
  IF outcome = "fetch_record" /\ attempt = 1
  THEN IF CarriesData(fetched) THEN "valid" ELSE "found"
  ELSE "failed"

Worst(a, b) ==
  IF "failed" \in {a, b} THEN "failed"
  ELSE IF "found" \in {a, b} THEN "found" ELSE "valid"

\* a variant of MoreAccessions that also sleeps after the last accession
MoreAccessions_Inclusive(idx, n) == idx <= n

\* if i < len(accessions), line 299
MoreAccessions(idx, n) == idx < n

\* a variant of ListAppend that inserts at the front
ListAppend_Front(list, item) == <<item>> \o list

\* all_data.append(metadata), line 293
ListAppend(list, item) == Append(list, item)

\* a variant of Increment that counts the attempts instead of the accession
Increment_PerAttempt(counter, attempts) == counter + attempts

\* successful += 1 and failed += 1, lines 294 and 296, after a call of the
\* resolver that took the given number of attempts
Increment(counter, attempts) == counter + 1

RecordResult ==
  /\ pc = "returned"
  /\ IF Truthy(metadata)
     THEN /\ all_data' = ListAppend(all_data,
                           DictSet(metadata[1], AccessionCol(db), accessions[i]))
          /\ successful' = Increment(successful, attempt)
          /\ UNCHANGED failed
     ELSE /\ failed' = Increment(failed, attempt)
          /\ UNCHANGED << all_data, successful >>
  /\ history' = Worst(history, Lookups)
  /\ metadata' = None
  /\ FrameGone
  /\ pc' = IF MoreAccessions(i, Len(accessions)) THEN "delay" ELSE "summary"
  /\ UNCHANGED << cli, apart, accessions, i, waits, output >>

\* time.sleep raises ValueError on a negative argument; main does not catch it
SleepRaises(seconds) == seconds < 0

\* time.sleep(args.delay), then the next accession of the for loop, if any
RateLimit ==
  /\ pc = "delay"
  /\ IF SleepRaises(delay)
     THEN pc' = "crashed" /\ UNCHANGED << i, waits >>
     ELSE /\ waits' = waits + 1
          /\ i' = i + 1
          /\ pc' = IF i + 1 <= Len(accessions) THEN "loop" ELSE "summary"
  /\ UNCHANGED << cli, apart, accessions, tally, metadata, frame, history, output >>

(* ---------------------------------------------------------------------- *)
(* main, lines 302-324: summary and output                                 *)
(* ---------------------------------------------------------------------- *)
\* a variant of NonEmpty that wants more than one record
NonEmpty_MoreThanOne(data) == Len(data) > 1

\* if all_data, line 310
NonEmpty(data) == data # <<>>

Summary ==
  /\ pc = "summary"
  /\ output' = IF NonEmpty(all_data) THEN WriteTsv(all_data) ELSE None
  /\ pc' = "done"
  /\ UNCHANGED << cli, apart, accessions, i, tally, metadata, frame, history, waits >>

\* the exit status of the process where the thread has stopped: sys.exit(1)
\* at line 269, the interpreter's status for an uncaught exception, 0 at the
\* end of main
ExitStatus(at) == IF at = "done" THEN 0 ELSE 1

Next ==
  \/ ReadInput
  \/ CallFetchFn
  \/ Esearch
  \/ Elink
  \/ Efetch
  \/ Backoff
  \/ RecordResult
  \/ RateLimit
  \/ Summary

Spec == Init /\ [][Next]_vars

(* ====================================================================== *)
(* The two resolvers side by side                                          *)
(*                                                                         *)
(* fetch_biosample_from_assembly and fetch_biosample_from_nucleotide are   *)
(* two functions in the source.  Here each is translated on its own, as a  *)
(* step function on its frame, and the two are run on the same accession   *)
(* against the same answers of the remote service.                         *)
(* ====================================================================== *)
\* what a remote call does: the request fails, reading the answer fails,
\* or the answer is read
Answers(values) ==
  {[kind |-> "request_error", value |-> None],
   [kind |-> "read_error", value |-> None]}
  \cup {[kind |-> "read", value |-> v] : v \in values}

\* the frame of a resolver just called by main, line 289: first attempt
Called(accession) ==
  [pc      |-> "search",
   acc     |-> accession,
   attempt |-> 1,
   calls   |-> <<>>,
   sleeps  |-> <<>>,
   result  |-> None,
   row     |-> None]

\* except Exception, lines 111-117
AssemblyExcept(f) ==
  IF RetriesLeft(f.attempt)
  THEN [f EXCEPT !.pc = "backoff"]
  ELSE [f EXCEPT !.pc = "returned", !.result = None]

\* lines 88-96
AssemblySearch(f, answer) ==
  LET g == [f EXCEPT !.calls =
              Append(@, [op |-> "esearch", args |-> [db |-> "assembly"]])]
  IN  IF answer.kind # "read" THEN AssemblyExcept(g)
      ELSE IF answer.value.IdList = <<>>
      THEN [g EXCEPT !.pc = "returned", !.result = None]
      ELSE [g EXCEPT !.pc = "link"]

\* lines 99-108
AssemblyLink(f, answer) ==
  LET g == [f EXCEPT !.calls =
              Append(@, [op   |-> "elink",
                         args |-> [dbfrom |-> "assembly", db |-> "biosample"]])]
  IN  IF answer.kind # "read" THEN AssemblyExcept(g)
      ELSE IF Len(answer.value) = 0 THEN AssemblyExcept(g)
      ELSE IF answer.value[1].LinkSetDb = <<>>
      THEN [g EXCEPT !.pc = "returned", !.result = None]
      ELSE IF answer.value[1].LinkSetDb[1].Link = <<>> THEN AssemblyExcept(g)
      ELSE [g EXCEPT !.pc = "fetch"]

\* line 109: return fetch_biosample_record(...), lines 50-71
AssemblyFetch(f, answer) ==
  LET g == [f EXCEPT !.calls =
              Append(@, [op |-> "efetch", args |-> [db |-> "biosample"]])]
  IN  IF answer.kind # "read" THEN AssemblyExcept(g)
      ELSE IF answer.value = <<>>
      THEN [g EXCEPT !.pc = "returned", !.result = None]
      ELSE [g EXCEPT !.pc = "returned",
                     !.result = Some(ParseRecord(answer.value[1]))]

\* lines 113-114, 85 and 119: time.sleep(2) and the next attempt, if any
AssemblyBackoff(f) ==
  LET g == [f EXCEPT !.sleeps = Append(@, BackoffSeconds)]
  IN  IF InRange(f.attempt + 1)
      THEN [g EXCEPT !.attempt = @ + 1, !.pc = "search"]
      ELSE [g EXCEPT !.pc = "returned", !.result = None]

\* a variant of NucleotideExcept that never retries
NucleotideExcept_NoRetry(f) ==
  [f EXCEPT !.pc = "returned", !.result = None]

\* except Exception, lines 158-164
NucleotideExcept(f) ==
  IF RetriesLeft(f.attempt)
  THEN [f EXCEPT !.pc = "backoff"]
  ELSE [f EXCEPT !.pc = "returned", !.result = None]

\* lines 136-144
NucleotideSearch(f, answer) ==
  LET g == [f EXCEPT !.calls =
              Append(@, [op |-> "esearch", args |-> [db |-> "nucleotide"]])]
  IN  IF answer.kind # "read" THEN NucleotideExcept(g)
      ELSE IF answer.value.IdList = <<>>
      THEN [g EXCEPT !.pc = "returned", !.result = None]
      ELSE [g EXCEPT !.pc = "link"]

\* lines 147-155
NucleotideLink(f, answer) ==
  LET g == [f EXCEPT !.calls =
              Append(@, [op   |-> "elink",
                         args |-> [dbfrom |-> "nucleotide", db |-> "biosample"]])]
  IN  IF answer.kind # "read" THEN NucleotideExcept(g)
      ELSE IF Len(answer.value) = 0 THEN NucleotideExcept(g)
      ELSE IF answer.value[1].LinkSetDb = <<>>
      THEN [g EXCEPT !.pc = "returned", !.result = None]
      ELSE IF answer.value[1].LinkSetDb[1].Link = <<>> THEN NucleotideExcept(g)
      ELSE [g EXCEPT !.pc = "fetch"]

\* line 156: return fetch_biosample_record(...), lines 50-71
NucleotideFetch(f, answer) ==
  LET g == [f EXCEPT !.calls =
              Append(@, [op |-> "efetch", args |-> [db |-> "biosample"]])]
  IN  IF answer.kind # "read" THEN NucleotideExcept(g)
      ELSE IF answer.value = <<>>
      THEN [g EXCEPT !.pc = "returned", !.result = None]
      ELSE [g EXCEPT !.pc = "returned",
                     !.result = Some(ParseRecord(answer.value[1]))]

\* lines 160-161, 133 and 166: time.sleep(2) and the next attempt, if any
NucleotideBackoff(f) ==
  LET g == [f EXCEPT !.sleeps = Append(@, BackoffSeconds)]
  IN  IF InRange(f.attempt + 1)
      THEN [g EXCEPT !.attempt = @ + 1, !.pc = "search"]
      ELSE [g EXCEPT !.pc = "returned", !.result = None]

\* main, lines 274-296, for the value the resolver returned: the row it
\* appends to all_data, None when it counts the accession as failed
MainRecord(f, database) ==
  [f EXCEPT !.pc = "recorded",
            !.row = IF Truthy(f.result)
                    THEN Some(DictSet(f.result[1], AccessionCol(database),
                                      f.acc))
                    ELSE None]

\* main is not running
MainIdle ==
  /\ pc = "idle"
  /\ db = "assembly"
  /\ delay = 1
  /\ input_file = [kind |-> "lines", lines |-> <<>>]
  /\ accessions = <<>>
  /\ i = 0
  /\ all_data = <<>>
  /\ successful = 0
  /\ failed = 0
  /\ metadata = None
  /\ attempt = 0
  /\ handle = "unbound"
  /\ fetch_handle = "unbound"
  /\ record = None
  /\ link_record = None
  /\ outcome = "none"
  /\ fetched = NothingFetched
  /\ sleeps = <<>>
  /\ history = "valid"
  /\ waits = 0
  /\ output = None
  /\ attempt_calls = <<>>

main == << pc, cli, accessions, i, tally, metadata, frame, history, waits,
          output >>

ResolversInit ==
  /\ MainIdle
  /\ fetcher = NotCalled
  /\ \E accession \in Lines \ {""} :
       /\ asm = Called(accession)
       /\ nuc = Called(accession)

BothSearch ==
  /\ asm.pc = "search" /\ nuc.pc = "search"
  /\ \E answer \in Answers(SearchRecords) :
       /\ asm' = AssemblySearch(asm, answer)
       /\ nuc' = NucleotideSearch(nuc, answer)
  /\ UNCHANGED << main, fetcher >>

BothLink ==
  /\ asm.pc = "link" /\ nuc.pc = "link"
  /\ \E answer \in Answers(LinkRecords) :
       /\ asm' = AssemblyLink(asm, answer)
       /\ nuc' = NucleotideLink(nuc, answer)
  /\ UNCHANGED << main, fetcher >>

BothFetch ==
  /\ asm.pc = "fetch" /\ nuc.pc = "fetch"
  /\ \E answer \in Answers(BiosampleRecords) :
       /\ asm' = AssemblyFetch(asm, answer)
       /\ nuc' = NucleotideFetch(nuc, answer)
  /\ UNCHANGED << main, fetcher >>

BothBackoff ==
  /\ asm.pc = "backoff" /\ nuc.pc = "backoff"
  /\ asm' = AssemblyBackoff(asm)
  /\ nuc' = NucleotideBackoff(nuc)
  /\ UNCHANGED << main, fetcher >>

BothRecord ==
  /\ asm.pc = "returned" /\ nuc.pc = "returned"
  /\ asm' = MainRecord(asm, "assembly")
  /\ nuc' = MainRecord(nuc, "nucleotide")
  /\ UNCHANGED << main, fetcher >>

ResolversNext ==
  \/ BothSearch
  \/ BothLink
  \/ BothFetch
  \/ BothBackoff
  \/ BothRecord

SpecResolvers == ResolversInit /\ [][ResolversNext]_vars

(* ====================================================================== *)
(* fetch_biosample_record on its own, statement by statement               *)
(* ====================================================================== *)
\* lines 58-59: the record to parse is bound and attributes is empty
Parsing(biosample_record) ==
  [pc               |-> "accession",
   biosample_record |-> biosample_record,
   attributes       |-> EmptyDict,
   rest             |-> <<>>]

FetcherInit ==
  /\ MainIdle
  /\ asm = NotCalled
  /\ nuc = NotCalled
  /\ \E biosample_record \in BiosampleRecord :
       fetcher = Parsing(biosample_record)

\* lines 61-64: store the canonical accession, if there is one, then open
\* the iteration over the attribute list, if there is one
StoreAccession ==
  /\ fetcher.pc = "accession"
  /\ fetcher' =
       [fetcher EXCEPT
          !.pc = "scan",
          !.attributes = ExtractAccession(fetcher.biosample_record),
          !.rest = IF "Attributes" \in DOMAIN fetcher.biosample_record
                   THEN fetcher.biosample_record.Attributes
                   ELSE <<>>]
  /\ UNCHANGED << main, asm, nuc >>

\* lines 65-69: one iteration of the for loop
CopyNext ==
  /\ fetcher.pc = "scan"
  /\ fetcher.rest # <<>>
  /\ fetcher' =
       [fetcher EXCEPT
          !.attributes = CopyAttribute(fetcher.attributes, Head(fetcher.rest)),
          !.rest = Tail(fetcher.rest)]
  /\ UNCHANGED << main, asm, nuc >>

\* line 71: return attributes
ReturnAttributes ==
  /\ fetcher.pc = "scan"
  /\ fetcher.rest = <<>>
  /\ fetcher' = [fetcher EXCEPT !.pc = "returned"]
  /\ UNCHANGED << main, asm, nuc >>

FetcherNext ==
  \/ StoreAccession
  \/ CopyNext
  \/ ReturnAttributes

SpecFetcher == FetcherInit /\ [][FetcherNext]_vars

(* ====================================================================== *)
(* Properties                                                              *)
(* ====================================================================== *)
N == Len(accessions)

\* positions of the thread inside a call of the resolver
InCall == {"search", "link", "fetch", "backoff"}
\* positions from which the next step opens a remote request
AboutToRequest == {"search", "link", "fetch"}

\* outcomes in which the remote service answered that there is nothing
NotFoundOutcomes ==
  {"search_empty", "link_no_linkset", "link_no_linksetdb", "link_no_links",
   "fetch_empty"}

\* outcomes in which the request or the reading of its response raised
TransportErrors ==
  {"search_request_error", "search_read_error", "link_request_error",
   "link_read_error", "fetch_request_error", "fetch_read_error"}

\* every outcome that lands in the except branch
Exceptions == TransportErrors \cup {"link_no_linkset", "link_no_links"}

AccessionTags == {"assembly_accession", "nucleotide_accession"}

AllowedKeys ==
  KNOWN_ATTRIBUTES \cup {"biosample_accession"} \cup AccessionTags

Last(s) == s[Len(s)]

Range(s) == {s[n] : n \in 1..Len(s)}

Max(a, b) == IF a >= b THEN a ELSE b

\* accessions whose result main has recorded
Recorded == IF pc \in InCall \cup {"loop", "returned"} THEN i - 1 ELSE i

\* the row main appends for the value the resolver returned
TaggedRecord == DictSet(metadata[1], AccessionCol(db), accessions[i])

(* ---------------------------------------------------------------------- *)
\* C1: NotFound is terminal.  A remote call of an attempt that finds nothing
\* (search without ids, cross-reference without a link, empty record set)
\* makes the resolver return None at once, with no backoff sleep and no
\* further remote call, and main then counts the accession as failed and
\* appends nothing.
C1_NotFoundIsTerminal ==
  [][ /\ (pc \in AboutToRequest /\ outcome' \in NotFoundOutcomes)
           => (pc' = "returned" /\ metadata' = None /\ sleeps' = sleeps)
      /\ (pc = "returned" /\ outcome \in NotFoundOutcomes)
           => (failed' = failed + 1 /\ all_data' = all_data) ]_vars

(* ---------------------------------------------------------------------- *)
\* C2: bounded retry with fixed backoff.  No accession gets more than
\* MaxRetries attempts; before attempt k exactly k - 1 sleeps of
\* BackoffSeconds have been made for it; no sleep follows the last attempt;
\* a call that ends in the except branch has made exactly MaxRetries
\* attempts and MaxRetries - 1 sleeps, and is counted as failed.
C2_Invariant ==
  /\ attempt <= MaxRetries
  /\ pc = "backoff" => attempt < MaxRetries
  /\ pc \in InCall \cup {"returned"} =>
        sleeps = [n \in 1..(attempt - 1) |-> BackoffSeconds]
  /\ (pc = "returned" /\ outcome \in Exceptions) =>
        /\ attempt = MaxRetries
        /\ Len(sleeps) = MaxRetries - 1
        /\ metadata = None

C2_BoundedRetry ==
  /\ []C2_Invariant
  /\ [][ (pc = "returned" /\ outcome \in Exceptions)
           => (failed' = failed + 1 /\ successful' = successful
               /\ all_data' = all_data) ]_vars

\* every attempt of the accession raised a transport error, the last one too
C2_Witness ==
  /\ pc = "returned"
  /\ outcome \in TransportErrors
  /\ attempt = MaxRetries
  /\ sleeps = <<BackoffSeconds, BackoffSeconds>>

(* ---------------------------------------------------------------------- *)
\* C3: retry recovers.  An attempt that raises while attempts remain is
\* followed by a backoff and then by the next attempt, without the
\* accession being recorded; a valid record fetched at any attempt, the last
\* one included, is returned, counted as successful and appended with the
\* accession tag; and the written table has its row.
C3_Step ==
  /\ (pc \in AboutToRequest /\ outcome' \in Exceptions /\ attempt < MaxRetries)
        => pc' = "backoff"
  /\ (pc = "backoff" /\ attempt < MaxRetries)
        => (pc' = "search" /\ attempt' = attempt + 1 /\ failed' = failed
            /\ successful' = successful /\ all_data' = all_data)
  /\ (pc = "fetch" /\ outcome' = "fetch_record" /\ CarriesData(fetched'))
        => (pc' = "returned" /\ Truthy(metadata'))
  /\ (pc = "returned" /\ Truthy(metadata))
        => (/\ successful' = successful + 1
            /\ failed' = failed
            /\ Len(all_data') = Len(all_data) + 1
            /\ Last(all_data') = TaggedRecord)

C3_Output ==
  (pc = "done" /\ all_data # <<>>) =>
     /\ output # None
     /\ Len(output[1].rows) = Len(all_data)
     /\ \A n \in 1..Len(all_data) :
          \E c \in 1..Len(output[1].header) :
             /\ output[1].header[c] = AccessionCol(db)
             /\ output[1].rows[n][c] = all_data[n][AccessionCol(db)]

C3_RetryRecovers == []C3_Output /\ [][C3_Step]_vars

\* two attempts raised, the third returned a valid record
C3_Witness ==
  /\ pc = "returned"
  /\ attempt = MaxRetries
  /\ outcome = "fetch_record"
  /\ Truthy(metadata)

(* ---------------------------------------------------------------------- *)
\* C4: once the input file has been read the run never aborts: whatever the
\* remote outcomes and whatever --delay, it does not end in an uncaught
\* exception short of the summary.
C4_NeverAborts == input_file.kind = "lines" => pc # "crashed"

(* ---------------------------------------------------------------------- *)
\* C5 as stated: when every lookup of every accession succeeds (search finds
\* an id, the cross-reference a link, the fetch a record), the finished run
\* has N records, successful = N, failed = 0, and a table of N data rows
\* under one header row.  (For the empty list no table is written at all;
\* the formula leaves that case aside.)
C5_Table ==
  /\ output # None
  /\ Len(output[1].rows) = N
  /\ \A n \in 1..N : Len(output[1].rows[n]) = Len(output[1].header)

C5_Counts == Len(all_data) = N /\ successful = N /\ failed = 0

C5_AllLookupsSucceed ==
  (pc = "done" /\ history \in {"valid", "found"}) =>
     (C5_Counts /\ (N >= 1 => C5_Table))

\* C5 amended: the same, for N >= 1 and when moreover every fetched record
\* carries a canonical accession or at least one attribute the allow-list
\* lets through.
C5_AllLookupsValid ==
  (pc = "done" /\ history = "valid" /\ N >= 1) => (C5_Counts /\ C5_Table)

C5_Witness ==
  /\ pc = "done"
  /\ history = "valid"
  /\ N = 2
  /\ output # None
  /\ Len(output[1].rows) = 2

(* ---------------------------------------------------------------------- *)
\* C6 as stated: every record of the Result Set has the key
\* biosample_accession.
C6_AlwaysHasAccessionKey ==
  \A n \in 1..Len(all_data) : "biosample_accession" \in DOMAIN all_data[n]

\* C6 amended: the record appended for an accession has the key
\* biosample_accession exactly when the fetched record carried a canonical
\* accession or listed an attribute named biosample_accession; a record of
\* the Result Set without the key has an allow-listed attribute instead.
C6_Step ==
  (pc = "returned" /\ outcome = "fetch_record" /\ Truthy(metadata)) =>
     /\ Len(all_data') = Len(all_data) + 1
     /\ "biosample_accession" \in DOMAIN Last(all_data')
          <=> (fetched.accession \/ "biosample_accession" \in fetched.names)

C6_Records ==
  \A n \in 1..Len(all_data) :
     \/ "biosample_accession" \in DOMAIN all_data[n]
     \/ (DOMAIN all_data[n]) \cap KNOWN_ATTRIBUTES # {}

C6_AccessionKeyWhenCarried == []C6_Records /\ [][C6_Step]_vars

\* one record with the key and one without it
C6_Witness ==
  /\ Len(all_data) = 2
  /\ "biosample_accession" \in DOMAIN all_data[1]
  /\ "biosample_accession" \notin DOMAIN all_data[2]

(* ---------------------------------------------------------------------- *)
\* C7: every key of every record of the Result Set, of the value a resolver
\* returned, and every column of the written table, is an allow-listed
\* attribute name, biosample_accession, or one of the two accession tags.
C7_KeysAllowed ==
  /\ \A n \in 1..Len(all_data) : DOMAIN all_data[n] \subseteq AllowedKeys
  /\ metadata # None => DOMAIN metadata[1] \subseteq AllowedKeys
  /\ output # None => Range(output[1].header) \subseteq AllowedKeys

\* a record is in the Result Set, and the one just fetched listed an
\* attribute outside the allow-list and one without a name
C7_Witness ==
  /\ pc = "returned"
  /\ Len(all_data) >= 1
  /\ Truthy(metadata)
  /\ {"submitter_id", NoName} \subseteq fetched.names

(* ---------------------------------------------------------------------- *)
\* C8: when an attempt has ended, and whenever a remote request is about to
\* be opened, no handle opened earlier is still open.
C8_HandlesClosed ==
  pc \in AboutToRequest \cup {"backoff", "returned"} =>
     (handle # "open" /\ fetch_handle # "open")

(* ---------------------------------------------------------------------- *)
\* C9: while accession i is being resolved or recorded exactly i - 1 delay
\* waits have been made, so the wait after accession i - 1 precedes every
\* remote call for accession i; the driver is about to wait only after an
\* accession that is not the last; and at the summary exactly max(N - 1, 0)
\* waits have been made.
C9_DelayBetweenAccessions ==
  /\ pc \in InCall \cup {"loop", "returned", "delay"} => waits = i - 1
  /\ pc = "delay" => i < N
  /\ pc \in {"summary", "done"} => waits = Max(N - 1, 0)

\* a finished run over two accessions, one recorded and one failed
C9_Witness ==
  /\ pc = "done"
  /\ N = 2
  /\ waits = 1
  /\ successful = 1
  /\ failed = 1

(* ---------------------------------------------------------------------- *)
\* C10: every step leaves the Result Set unchanged or appends one record at
\* its end; the accession tags of its records, read in order, are a
\* subsequence of the accessions recorded so far (so there is at most one
\* record per input position).
RECURSIVE IsSubseq(_, _)
IsSubseq(s, t) ==
  IF s = <<>> THEN TRUE
  ELSE IF t = <<>> THEN FALSE
  ELSE IF Head(s) = Head(t) THEN IsSubseq(Tail(s), Tail(t))
  ELSE IsSubseq(s, Tail(t))

Tags(data) == [n \in 1..Len(data) |-> DictGet(data[n], AccessionCol(db), "")]

C10_Ordered ==
  /\ Len(all_data) <= Recorded
  /\ IsSubseq(Tags(all_data), SubSeq(accessions, 1, Recorded))

C10_Grows ==
  \/ all_data' = all_data
  \/ /\ Len(all_data') = Len(all_data) + 1
     /\ SubSeq(all_data', 1, Len(all_data)) = all_data

C10_ResultSetGrowsInOrder == []C10_Ordered /\ [][C10_Grows]_vars

\* the first accession failed and the second, a different one, is recorded
C10_Witness ==
  /\ pc = "done"
  /\ N = 2
  /\ accessions[1] # accessions[2]
  /\ Len(all_data) = 1
  /\ all_data[1][AccessionCol(db)] = accessions[2]

(* ---------------------------------------------------------------------- *)
(* C11                                                                     *)
(* ---------------------------------------------------------------------- *)
C11_Invariant ==
  /\ output # None => pc = "done" /\ Recorded = N /\ all_data # <<>>
  /\ pc = "done" => (output # None <=> all_data # <<>>)
  /\ pc = "done" /\ (N = 0 \/ failed = N) => successful = 0 /\ output = None

C11_Step ==
  /\ output' # output => output = None /\ pc = "summary" /\ pc' = "done"
  /\ pc = "start" /\ input_file.kind = "lines"
       /\ NonBlank(input_file.lines) = <<>> => pc' = "summary"

\* C11: the output file is written at most once, in the step that ends the
\* run, after every accession has been recorded, and a finished run has
\* written it exactly when the Result Set is non-empty; an input without
\* accessions goes straight to the summary, and a finished run with no
\* accession or only failed ones has 0 successful and no output file.
C11_OutputWrittenOnceAtTheEnd == []C11_Invariant /\ [][C11_Step]_vars

\* two accessions, both failed, the run finished and wrote nothing
C11_Witness ==
  /\ pc = "done"
  /\ N = 2
  /\ failed = 2
  /\ output = None

(* ---------------------------------------------------------------------- *)
(* C12                                                                     *)
(* ---------------------------------------------------------------------- *)
\* the place of a key in code-point order
Rank(key) == CHOOSE n \in 1..Len(KeyOrder) : KeyOrder[n] = key

Reverse(s) == [n \in 1..Len(s) |-> s[Len(s) + 1 - n]]

\* table is the table of the records of data
C12_Table(data, table) ==
  /\ \A c, d \in 1..Len(table.header) :
       c < d => Rank(table.header[c]) < Rank(table.header[d])
  /\ Range(table.header) = UNION {DOMAIN data[n] : n \in 1..Len(data)}
  /\ Len(table.rows) = Len(data)
  /\ \A n \in 1..Len(data) :
       /\ Len(table.rows[n]) = Len(table.header)
       /\ \A c \in 1..Len(table.header) :
            table.rows[n][c] =
              IF table.header[c] \in DOMAIN data[n]
              THEN data[n][table.header[c]]
              ELSE ""

\* C12: the file written for a non-empty Result Set has as header the union
\* of the keys of all records in strictly ascending code-point order, the
\* same header as for the records in the opposite order, then one row per
\* record in Result Set order, each row holding the record's value under
\* every column the record has and the empty string under the others.
C12_TableOfResultSet ==
  pc = "done" /\ all_data # <<>> =>
    /\ output # None
    /\ C12_Table(all_data, output[1])
    /\ WriteTsv(Reverse(all_data))[1].header = output[1].header

\* a written table of two records, each with a column the other lacks
C12_Witness ==
  /\ pc = "done"
  /\ output # None
  /\ Len(all_data) = 2
  /\ DOMAIN all_data[1] \ DOMAIN all_data[2] # {}
  /\ DOMAIN all_data[2] \ DOMAIN all_data[1] # {}
  /\ Len(output[1].header) >= 3

(* ---------------------------------------------------------------------- *)
(* C13                                                                     *)
(* ---------------------------------------------------------------------- *)
\* the arguments of a call with the collection assembly renamed nucleotide
Renamed(args) ==
  [a \in DOMAIN args |-> IF args[a] = "assembly" THEN "nucleotide" ELSE args[a]]

Without(d, key) == [a \in DOMAIN d \ {key} |-> d[a]]

\* C13: run on the same accession against the same answers, the assembly
\* resolver and the nucleotide resolver are at the same place after every
\* step, have made the same remote operations in the same order, with the
\* same arguments but for the collection searched and linked from, are in
\* the same attempt after the same backoff sleeps, return the same value,
\* and main records both as failed or both as the same row but for the
\* tag: assembly_accession in one, nucleotide_accession in the other, both
\* holding the accession.
C13_SameButForCollectionAndTag ==
  /\ asm.pc = nuc.pc
  /\ asm.attempt = nuc.attempt
  /\ asm.sleeps = nuc.sleeps
  /\ Len(asm.calls) = Len(nuc.calls)
  /\ \A n \in 1..Len(asm.calls) :
       /\ asm.calls[n].op = nuc.calls[n].op
       /\ Renamed(asm.calls[n].args) = nuc.calls[n].args
       /\ asm.calls[n].op \in {"esearch", "elink"} =>
            asm.calls[n].args # nuc.calls[n].args
  /\ asm.result = nuc.result
  /\ (asm.row = None) <=> (nuc.row = None)
  /\ asm.row # None =>
       /\ "assembly_accession" \in DOMAIN asm.row[1]
       /\ "nucleotide_accession" \in DOMAIN nuc.row[1]
       /\ asm.row[1]["assembly_accession"] = asm.acc
       /\ nuc.row[1]["nucleotide_accession"] = nuc.acc
       /\ Without(asm.row[1], "assembly_accession")
            = Without(nuc.row[1], "nucleotide_accession")

\* both resolvers recorded a row after a transport error and a retry
C13_Witness ==
  /\ asm.pc = "recorded"
  /\ nuc.pc = "recorded"
  /\ asm.row # None
  /\ nuc.row # None
  /\ asm.attempt = 2
  /\ Len(asm.calls) >= 4
  /\ Len(nuc.sleeps) = 1

(* ---------------------------------------------------------------------- *)
(* C14                                                                     *)
(* ---------------------------------------------------------------------- *)
Stopped == {"exit1", "crashed", "done"}

C14_NothingDone ==
  input_file.kind \in {"missing", "unreadable"} =>
    /\ pc \in {"start", "exit1", "crashed"}
    /\ pc \in Stopped => ExitStatus(pc) # 0
    /\ accessions = <<>> /\ i = 0
    /\ successful = 0 /\ failed = 0 /\ all_data = <<>>
    /\ attempt = 0 /\ attempt_calls = <<>> /\ outcome = "none"
    /\ handle = "unbound" /\ fetch_handle = "unbound"
    /\ sleeps = <<>> /\ waits = 0
    /\ output = None

C14_Step ==
  input_file.kind \in {"missing", "unreadable"} /\ pc = "start" =>
    pc' \in {"exit1", "crashed"}

\* C14: with an input file that is missing or cannot be read, the first
\* step of the run stops the process with a non-zero exit status, and at
\* no point of the run has an accession been read or counted, a remote
\* operation been requested, a backoff or delay wait been made, or the
\* output file been written.
C14_InputErrorIsFatal == []C14_NothingDone /\ [][C14_Step]_vars

\* the process has exited with status 1 on a missing input file
C14_Witness ==
  /\ input_file.kind = "missing"
  /\ pc = "exit1"
  /\ ExitStatus(pc) = 1

(* ---------------------------------------------------------------------- *)
(* C15                                                                     *)
(* ---------------------------------------------------------------------- *)
\* a cross-reference answer that was read and names no linked record
NoLinkOutcomes == {"link_no_linkset", "link_no_linksetdb", "link_no_links"}

C15_Step ==
  pc = "link" /\ outcome' \in NoLinkOutcomes =>
    /\ pc' = "returned"
    /\ metadata' = None
    /\ sleeps' = sleeps
    /\ attempt' = attempt

\* C15: a cross-reference answer that is read without a transport error
\* and names no linked record (no link set, an empty list of link-set
\* entries, or an entry with an empty list of links) makes the resolver
\* return None from that attempt, and the resolver neither waits for a
\* backoff nor starts another attempt for it.
C15_NoLinkIsNotRetried ==
  /\ [][C15_Step]_vars
  /\ [](pc = "backoff" => outcome \notin NoLinkOutcomes)

(* ---------------------------------------------------------------------- *)
(* C16                                                                     *)
(* ---------------------------------------------------------------------- *)
OperationOrder == << "search", "link", "fetch" >>

C16_Order ==
  /\ Len(attempt_calls) <= Len(OperationOrder)
  /\ \A n \in 1..Len(attempt_calls) : attempt_calls[n] = OperationOrder[n]
  /\ pc = "search" => attempt_calls = <<>>
  /\ pc = "link" => attempt_calls = << "search" >> /\ outcome = "search_found"
  /\ pc = "fetch" =>
       attempt_calls = << "search", "link" >> /\ outcome = "link_found"
  /\ pc \in InCall =>
       /\ attempt \in 1..MaxRetries
       /\ 3 * (attempt - 1) + Len(attempt_calls) <= 3 * MaxRetries
  /\ pc \in AboutToRequest =>
       /\ successful + failed = i - 1
       /\ metadata = None

C16_Step ==
  /\ attempt_calls' # attempt_calls /\ attempt_calls' # <<>> =>
       /\ pc \in AboutToRequest
       /\ attempt_calls' = Append(attempt_calls, pc)
       /\ attempt' = attempt
  /\ pc = "backoff" /\ pc' \in InCall =>
       pc' = "search" /\ attempt' = attempt + 1
  /\ attempt' # attempt /\ attempt' # 0 =>
       pc' = "search" /\ pc \in {"loop", "backoff"}

\* C16: the remote operations requested in one attempt are a prefix of
\* search, cross-reference, fetch-record; the cross-reference is requested
\* only after the search of the same attempt found an id and the
\* fetch-record only after its cross-reference found a link; every new
\* attempt, whatever call raised the error, starts at the search with none
\* requested; there are at most max_retries attempts of at most 3 calls;
\* and while accession i can still cause a remote call exactly the i - 1
\* accessions before it have been counted as successful or failed.
C16_OperationsInOrder == []C16_Order /\ [][C16_Step]_vars

\* the second accession has used up its third attempt on a failed
\* fetch-record request, after two backoffs: nine remote calls
C16_Witness ==
  /\ pc = "returned"
  /\ i = 2
  /\ attempt = MaxRetries
  /\ attempt_calls = OperationOrder
  /\ outcome = "fetch_request_error"
  /\ Len(sleeps) = 2

(* ---------------------------------------------------------------------- *)
(* C17                                                                     *)
(* ---------------------------------------------------------------------- *)
\* the keys that are resolvable data: the canonical accession and the
\* attributes of the allow-list
DataKeys == KNOWN_ATTRIBUTES \cup {"biosample_accession"}

C17_Records ==
  \A n \in 1..Len(all_data) :
     /\ AccessionCol(db) \in DOMAIN all_data[n]
     /\ (DOMAIN all_data[n] \ {AccessionCol(db)}) \cap DataKeys # {}

\* the record just fetched has no data: the mapping the fetch returned has
\* no key at all, or the response had no canonical accession and no
\* attribute that passes the filter
C17_NoData ==
  /\ pc = "returned"
  /\ outcome = "fetch_record"
  /\ \/ metadata # None /\ DOMAIN metadata[1] \cap DataKeys = {}
     \/ ~fetched.accession /\ fetched.names \cap DataKeys = {}

C17_Step ==
  C17_NoData =>
    /\ all_data' = all_data
    /\ successful' = successful
    /\ failed' = failed + 1

\* C17: every record of the Result Set has, besides its accession tag, the
\* key biosample_accession or an allow-listed attribute; and when a fetch
\* returns a mapping without any such key, main appends nothing and counts
\* the accession as failed.
C17_NoEmptyRecord == []C17_Records /\ [][C17_Step]_vars

\* a fetch has returned the empty mapping for a record whose attributes
\* were all filtered out, with one record already in the Result Set
C17_Witness ==
  /\ C17_NoData
  /\ metadata = Some(EmptyDict)
  /\ fetched.names # {}
  /\ Len(all_data) = 1

(* ---------------------------------------------------------------------- *)
(* C18                                                                     *)
(* ---------------------------------------------------------------------- *)
C18_Counts ==
  /\ successful + failed = Recorded
  /\ Len(all_data) = successful
  /\ pc \in {"summary", "done"} => successful + failed = N

C18_Step ==
  /\ successful' >= successful
  /\ failed' >= failed
  /\ << successful', failed' >> # << successful, failed >> =>
       /\ pc = "returned"
       /\ (successful' + failed') - (successful + failed) = 1
       /\ Recorded' = Recorded + 1
  /\ pc = "returned" => << successful', failed' >> # << successful, failed >>

\* C18: at every point of the run successful + failed is the number of
\* accessions whose result has been recorded and the Result Set has
\* successful records; the counters never decrease, they change only in
\* the step that records a returned accession, which adds 1 to exactly one
\* of them, whatever the number of attempts; at the summary and after it
\* successful + failed = N.
C18_CountingInvariant == []C18_Counts /\ [][C18_Step]_vars

\* two accessions recorded, the first failed after all its attempts, the
\* second succeeded at its second attempt
C18_Witness ==
  /\ pc = "returned"
  /\ i = 2
  /\ failed = 1
  /\ successful = 0
  /\ history = "failed"
  /\ attempt = 2
  /\ Truthy(metadata)

(* ---------------------------------------------------------------------- *)
(* C19                                                                     *)
(* ---------------------------------------------------------------------- *)
\* where a resolver at place, in attempt n, goes when its step has the
\* outcome o
C19_NextPlace(place, n, o) ==
  IF place = "backoff" THEN "search"
  ELSE IF o \in Exceptions
       THEN IF n < MaxRetries THEN "backoff" ELSE "returned"
  ELSE IF o = "search_found" THEN "link"
  ELSE IF o = "link_found" THEN "fetch"
  ELSE "returned"

C19_FreshFrame ==
  pc = "loop" =>
    /\ attempt = 0
    /\ sleeps = <<>>
    /\ attempt_calls = <<>>
    /\ outcome = "none"
    /\ metadata = None

C19_Step ==
  /\ pc = "loop" => pc' = "search" /\ attempt' = 1 /\ sleeps' = <<>>
  /\ pc \in InCall =>
       /\ pc' = C19_NextPlace(pc, attempt, outcome')
       /\ attempt' = IF pc = "backoff" THEN attempt + 1 ELSE attempt
       /\ Truthy(metadata') => outcome' = "fetch_record"
       /\ UNCHANGED << i, tally, history, waits >>
  /\ pc = "returned" =>
       successful' = successful + (IF Truthy(metadata) THEN 1 ELSE 0)

\* C19: main calls the resolver for every accession with a fresh frame:
\* attempt 1, no backoff made, no operation requested, whatever the counts
\* and the lookups of the accessions before it; from there the place the
\* resolver goes to at each step is a function of its own place, its own
\* attempt number and the outcome of its own remote call, its steps leave
\* the position in the list, the counters and the Result Set alone, and
\* the accession is counted by the value its own call returned.
C19_RetryBudgetPerAccession == []C19_FreshFrame /\ [][C19_Step]_vars

\* the second accession starts at attempt 1 after the first one failed
\* with all its attempts used
C19_Witness ==
  /\ pc = "search"
  /\ i = 2
  /\ attempt = 1
  /\ sleeps = <<>>
  /\ failed = 1
  /\ history = "failed"

(* ---------------------------------------------------------------------- *)
(* C20                                                                     *)
(* ---------------------------------------------------------------------- *)
\* the attributes of the response that the loop has been through
Scanned ==
  LET r == fetcher.biosample_record
  IN  IF "Attributes" \in DOMAIN r
      THEN SubSeq(r.Attributes, 1, Len(r.Attributes) - Len(fetcher.rest))
      ELSE <<>>

\* the places in the list s of the entries with the given name
Occurrences(s, name) ==
  {n \in 1..Len(s) : "attribute_name" \in DOMAIN s[n]
                        /\ s[n].attribute_name = name}

Greatest(S) == CHOOSE n \in S : \A m \in S : m <= n

ContentOf(attr) == IF "content" \in DOMAIN attr THEN attr.content ELSE ""

\* C20: once the canonical accession has been stored, and after every
\* iteration of the loop over the attribute list, the mapping holds under
\* each allow-listed name, and under biosample_accession, the content of
\* the last entry with that name among the entries scanned so far; under
\* biosample_accession it holds the canonical accession only while no
\* entry of that name has been scanned; it has no other key; and the
\* mapping returned is the one with which the driver's parse agrees.
C20_LastWriterWins ==
  fetcher.pc \in {"scan", "returned"} =>
    /\ \A name \in DataKeys :
         IF Occurrences(Scanned, name) # {}
         THEN /\ name \in DOMAIN fetcher.attributes
              /\ fetcher.attributes[name]
                   = ContentOf(Scanned[Greatest(Occurrences(Scanned, name))])
         ELSE IF name = "biosample_accession"
                 /\ "Accession" \in DOMAIN fetcher.biosample_record
         THEN /\ name \in DOMAIN fetcher.attributes
              /\ fetcher.attributes[name] = fetcher.biosample_record.Accession
         ELSE name \notin DOMAIN fetcher.attributes
    /\ DOMAIN fetcher.attributes \subseteq DataKeys
    /\ fetcher.pc = "returned" =>
         /\ fetcher.rest = <<>>
         /\ fetcher.attributes = ParseRecord(fetcher.biosample_record)

\* a record with a canonical accession whose attribute list names strain
\* and then biosample_accession has been parsed: the returned mapping has
\* the attribute's value under biosample_accession
C20_Witness ==
  /\ fetcher.pc = "returned"
  /\ "Accession" \in DOMAIN fetcher.biosample_record
  /\ Occurrences(Scanned, "strain") = {1}
  /\ Occurrences(Scanned, "biosample_accession") = {2}
  /\ fetcher.attributes["biosample_accession"] = "SAMN_ATTR"
  /\ fetcher.attributes["biosample_accession"]
       # fetcher.biosample_record.Accession

====
